---- MODULE Spec2Model ----
(***************************************************************************)
(* Model of ht/radiation.py: the three entry points                        *)
(*   blackbody_spectral_radiance(T, wavelength)                            *)
(*   q_rad(emissivity, T, T2=0)                                            *)
(*   solar_spectrum(model='SOLAR-ISS')                                     *)
(* Each function is a call: its arguments are drawn in the initial state,  *)
(* one action runs the body, and the outcome (a returned value or the      *)
(* exception that reaches the caller) is recorded.                         *)
(***************************************************************************)
EXTENDS Integers, Sequences, FiniteSets, TLC

VARIABLES
    q_pc,       \* q_rad call: "off" | "ready" | "done"
    q_args,     \* [emissivity, T, T2] ; T2 is <<>> when the argument is omitted
    q_ret,      \* value returned by q_rad
    b_pc,       \* blackbody_spectral_radiance call: "off" | "ready" | "done"
    b_args,     \* [T, wavelength], decimal floats
    b_ret,      \* [kind, val]: kind is "value" or the exception raised
    file,       \* data/solar_iss_2018_spectrum.dat: [readable, rows of tokens]
    s_pc,       \* per solar_spectrum call: "off" | "call" | "load" | "slice" |
                \*   "subst" | "return" | "done"
    s_model,    \* per call: the model argument
    data,       \* per call: the local array np.loadtxt returned
    wavelengths, SSI, uncertainties,    \* per call: the locals of these names
    s_ret       \* per call: [kind, wavelengths, SSI, uncertainties]

qvars == <<q_pc, q_args, q_ret>>
bvars == <<b_pc, b_args, b_ret>>
svars == <<file, s_pc, s_model, data, wavelengths, SSI, uncertainties, s_ret>>
vars == <<qvars, bvars, svars>>

(***************************************************************************)
(* Bounds of the model.                                                    *)
(***************************************************************************)
\* q_rad: temperatures are integers in units of 100 K, -MaxT..MaxT
MaxT == 5
\* q_rad: emissivities are integers in units of 1/4, -MaxE..MaxE
\* (so 4 is emissivity 1, and values below 0 and above 1 are drawn too)
MaxE == 6
\* blackbody: exponents of the temperatures and wavelengths drawn
MaxTExp == 3
MaxWExp == 3
\* solar_spectrum: rows of a drawn data file, and tokens of its widest row
MaxRows == 2
MaxCols == 4
\* solar_spectrum: concurrent calls, and rows of the files they read
NumCalls == 2
MaxRowsConc == 2

(***************************************************************************)
(* q_rad (radiation.py:76-115), over the integers.                         *)
(* Units: T in 100 K, emissivity in quarters, sigma = 5.670367e-8 W/m^2/K^4*)
(* = 5.670 W/m^2/(100 K)^4, kept as 5670 thousandths.                      *)
(***************************************************************************)
Sigma == 5670

RECURSIVE Pow(_, _)
\* b**n for a natural n
Pow(b, n) == IF n = 0 THEN 1 ELSE b * Pow(b, n - 1)

\* the value bound to parameter T2: the default 0 when the argument is omitted
T2Param(T2arg) == IF T2arg = <<>> THEN 0 ELSE T2arg[1]

\* mutant: the surroundings' temperature is ignored
q_rad_noT2(emissivity, T, T2arg) == Sigma * emissivity * Pow(T, 4)

\* mutant: the parentheses are lost, sigma*emissivity*T**4 - T2**4
q_rad_noParen(emissivity, T, T2arg) ==
    Sigma * emissivity * Pow(T, 4) - Pow(T2Param(T2arg), 4)

\* mutant: the operands of the difference are swapped
q_rad_swapped(emissivity, T, T2arg) ==
    Sigma * emissivity * (Pow(T2Param(T2arg), 4) - Pow(T, 4))

\* return sigma*emissivity*(T**4 - T2**4)
q_rad(emissivity, T, T2arg) ==
    Sigma * emissivity * (Pow(T, 4) - Pow(T2Param(T2arg), 4))

Temps == (0 - MaxT)..MaxT
Emissivities == (0 - MaxE)..MaxE
T2Args == {<<>>} \cup {<<t>> : t \in Temps}
QArgs == [emissivity : Emissivities, T : Temps, T2 : T2Args]

QRadCall ==
    /\ q_pc = "ready"
    /\ q_ret' = q_rad(q_args.emissivity, q_args.T, q_args.T2)
    /\ q_pc' = "done"
    /\ UNCHANGED <<q_args, bvars, svars>>

(***************************************************************************)
(* Python floats, as decimal floating point of four significant digits:    *)
(* [m, e] is m * 10^e with 1000 <= m <= 9999, or zero.  Only values >= 0   *)
(* occur (temperatures and wavelengths are drawn >= 0).  Every product and *)
(* quotient is rounded to four digits, as the double operations round to   *)
(* 53 bits.  The inputs drawn keep *, / and ** far inside the double range *)
(* (1e-324..1.79e308), so only exp can leave it.                           *)
(***************************************************************************)
Zero == [m |-> 0, e |-> 0]

RECURSIVE Normalize(_, _)
Normalize(m, e) ==
    IF m = 0 THEN Zero
    ELSE IF m >= 10000 THEN Normalize(m \div 10, e + 1)
    ELSE IF m < 1000 THEN Normalize(m * 10, e - 1)
    ELSE [m |-> m, e |-> e]

\* a * b
FMul(a, b) == Normalize(a.m * b.m, a.e + b.e)

\* a / b for b # 0 (Python raises ZeroDivisionError on b = 0 before dividing)
FDiv(a, b) == Normalize((a.m * 10000) \div b.m, a.e - b.e - 4)

RECURSIVE FPow(_, _)
\* a ** n for a natural n >= 1
FPow(a, n) == IF n = 1 THEN a ELSE FMul(a, FPow(a, n - 1))

\* a > b
FGt(a, b) ==
    IF a.m = 0 THEN FALSE
    ELSE IF b.m = 0 THEN TRUE
    ELSE a.e > b.e \/ (a.e = b.e /\ a.m > b.m)

\* scipy.constants h, c, k (radiation.py:26) and the literal 2.
h == [m |-> 6626, e |-> -37]
c == [m |-> 2998, e |-> 5]
k == [m |-> 1381, e |-> -26]
Two == [m |-> 2000, e |-> -3]

\* math.exp raises OverflowError above ln(DBL_MAX) = 709.78
ExpMax == [m |-> 7097, e |-> -1]

\* x in units of 1e-4, for 0 <= x <= ExpMax
Fixed4(x) ==
    IF x.e + 4 >= 0 THEN x.m * Pow(10, x.e + 4)
    ELSE IF x.e + 4 < -8 THEN 0
    ELSE x.m \div Pow(10, 0 - (x.e + 4))

RECURSIVE ExpSeries(_, _, _)
\* sum of z^j/j! for j >= n-1, in units of 1e-4, term being z^(n-1)/(n-1)!
ExpSeries(z, n, term) ==
    IF term = 0 THEN 0
    ELSE term + ExpSeries(z, n + 1, (term * z) \div (10000 * n))

\* math.exp(x) for 0 <= x <= ExpMax: 10^(x*log10(e)), the integer part of
\* the exponent going to e and the fractional part to the mantissa
FExp(x) ==
    LET X4 == Fixed4(x)
        Y4 == ((X4 \div 1000) * 43429) \div 100 + ((X4 % 1000) * 43429) \div 100000
        Z4 == ((Y4 % 10000) * 23026) \div 10000
    IN  Normalize(ExpSeries(Z4, 1, 10000), (Y4 \div 10000) - 4)

\* a - 1. for a >= 1; the 1 is below the last digit of a >= 10000
FSub1(a) ==
    IF a.e >= 1 THEN a
    ELSE Normalize(a.m - Pow(10, 0 - a.e), a.e)

Raise(exc) == [kind |-> exc, val |-> Zero]
Return(v) == [kind |-> "value", val |-> v]

\* mutant: zero arguments are special-cased and 0.0 is returned
blackbody_guarded(T, wavelength) ==
    LET w5 == FPow(wavelength, 5)
        den == FMul(FMul(wavelength, T), k)
    IN  IF T.m = 0 \/ wavelength.m = 0 THEN Return(Zero)
        ELSE LET q == FDiv(FMul(FMul(Two, h), FPow(c, 2)), w5)
                 x == FDiv(FMul(h, c), den)
             IN  IF FGt(x, ExpMax) THEN Raise("OverflowError")
                 ELSE LET d == FSub1(FExp(x))
                      IN  IF d.m = 0 THEN Raise("ZeroDivisionError")
                          ELSE Return(FDiv(q, d))

\* return 2.*h*c**2/wavelength**5/(exp(h*c/(wavelength*T*k)) - 1.)
\* evaluated left to right: the quotient by wavelength**5 first
blackbody_spectral_radiance(T, wavelength) ==
    LET w5 == FPow(wavelength, 5)
        den == FMul(FMul(wavelength, T), k)
    IN  IF w5.m = 0 THEN Raise("ZeroDivisionError")
        ELSE IF den.m = 0 THEN Raise("ZeroDivisionError")
        ELSE LET q == FDiv(FMul(FMul(Two, h), FPow(c, 2)), w5)
                 x == FDiv(FMul(h, c), den)
             IN  IF FGt(x, ExpMax) THEN Raise("OverflowError")
                 ELSE LET d == FSub1(FExp(x))
                      IN  IF d.m = 0 THEN Raise("ZeroDivisionError")
                          ELSE Return(FDiv(q, d))

\* blackbody: temperatures are 0 and d * 10^j K, d in {1, 3, 8}, j in 0..MaxTExp
BTemps == {Zero} \cup {Normalize(d, j) : d \in {1, 3, 8}, j \in 0..MaxTExp}
\* wavelengths are 0 and d * 10^(-6-j) m, d in {1, 4}, j in 0..MaxWExp
BWaves == {Zero} \cup {Normalize(d, 0 - 6 - j) : d \in {1, 4}, j \in 0..MaxWExp}
BArgs == [T : BTemps, wavelength : BWaves]

BlackbodyCall ==
    /\ b_pc = "ready"
    /\ b_ret' = blackbody_spectral_radiance(b_args.T, b_args.wavelength)
    /\ b_pc' = "done"
    /\ UNCHANGED <<b_args, qvars, svars>>

(***************************************************************************)
(* solar_spectrum (radiation.py:118-193).                                  *)
(* The data file is a sequence of rows of whitespace-separated tokens.     *)
(* Numbers are exact decimals [m, e] = m * 10^e, or not-a-number.          *)
(***************************************************************************)
Num(m, e) == [nan |-> FALSE, m |-> m, e |-> e]
NaN == [nan |-> TRUE, m |-> 0, e |-> 0]

\* the tokens of the files drawn: two numerals and a non-numeric token
NumericTokens == {"-1", "2"}
Tokens == NumericTokens \cup {"x"}

\* float(token), as np.loadtxt converts each token
IsFloat(tok) == tok \in NumericTokens
float(tok) == IF tok = "-1" THEN Num(0 - 1, 0) ELSE Num(2, 0)

\* v * 1E<n>
Times10(v, n) ==
    IF v.nan THEN NaN
    ELSE IF v.m = 0 THEN v
    ELSE Num(v.m, v.e + n)

\* array * 1E<n>, a new array
ScaleArr(col, n) == [i \in 1..Len(col) |-> Times10(col[i], n)]

SRaise(exc) ==
    [kind |-> exc, wavelengths |-> <<>>, SSI |-> <<>>, uncertainties |-> <<>>]
SReturn(w, s, u) ==
    [kind |-> "value", wavelengths |-> w, SSI |-> s, uncertainties |-> u]

NoArray == [kind |-> "none", ndim |-> 0, a |-> <<>>]

\* np.loadtxt(pth): OSError when the file cannot be opened, ValueError on a
\* token float() rejects or a row whose column count differs from the first
\* row's; the array is squeezed, so one row (or one column) loses a dimension
loadtxt(f) ==
    IF ~f.readable THEN [kind |-> "OSError", ndim |-> 0, a |-> <<>>]
    ELSE IF \E i \in 1..Len(f.rows) :
                \/ \E j \in 1..Len(f.rows[i]) : ~IsFloat(f.rows[i][j])
                \/ Len(f.rows[i]) # Len(f.rows[1])
         THEN [kind |-> "ValueError", ndim |-> 0, a |-> <<>>]
    ELSE [kind |-> "array",
          ndim |-> IF Len(f.rows) = 0 THEN 1
                   ELSE (IF Len(f.rows) > 1 THEN 1 ELSE 0)
                        + (IF Len(f.rows[1]) > 1 THEN 1 ELSE 0),
          a |-> [i \in 1..Len(f.rows) |->
                    [j \in 1..Len(f.rows[i]) |-> float(f.rows[i][j])]]]

\* whether data[:, j] (j counted from 1 here) is a valid index
CanIndexColumn(arr, j) == arr.ndim = 2 /\ j <= Len(arr.a[1])

\* data[:, j]
Column(arr, j) == [i \in 1..Len(arr.a) |-> arr.a[i][j]]

\* mutant: the mask is taken against 1 instead of -1
MinusOneToNaN_sign(col) ==
    [i \in 1..Len(col) |-> IF col[i] = Num(1, 0) THEN NaN ELSE col[i]]

\* uncertainties[uncertainties == -1] = np.nan
MinusOneToNaN(col) ==
    [i \in 1..Len(col) |-> IF col[i] = Num(0 - 1, 0) THEN NaN ELSE col[i]]

\* the in-place assignment seen through data, of which uncertainties is a view
WriteColumn(arr, j, col) ==
    [arr EXCEPT !.a = [i \in 1..Len(arr.a) |-> [arr.a[i] EXCEPT ![j] = col[i]]]]

Calls == 1..NumCalls
Models == {"SOLAR-ISS", "WHI"}

\* line 181: if model == 'SOLAR-ISS'; otherwise line 193 is reached with the
\* three locals unbound
SolarTest(p) ==
    /\ s_pc[p] = "call"
    /\ IF s_model[p] = "SOLAR-ISS"
       THEN /\ s_pc' = [s_pc EXCEPT ![p] = "load"]
            /\ UNCHANGED s_ret
       ELSE /\ s_pc' = [s_pc EXCEPT ![p] = "done"]
            /\ s_ret' = [s_ret EXCEPT ![p] = SRaise("UnboundLocalError")]
    /\ UNCHANGED <<file, s_model, data, wavelengths, SSI, uncertainties>>
    /\ UNCHANGED <<qvars, bvars>>

\* mutant: the table is read destructively, the file is left empty
SolarLoad_consuming(p) ==
    /\ s_pc[p] = "load"
    /\ LET arr == loadtxt(file)
       IN  IF arr.kind = "array"
           THEN /\ data' = [data EXCEPT ![p] = arr]
                /\ s_pc' = [s_pc EXCEPT ![p] = "slice"]
                /\ UNCHANGED s_ret
           ELSE /\ s_pc' = [s_pc EXCEPT ![p] = "done"]
                /\ s_ret' = [s_ret EXCEPT ![p] = SRaise(arr.kind)]
                /\ UNCHANGED data
    /\ file' = [file EXCEPT !.rows = <<>>]
    /\ UNCHANGED <<s_model, wavelengths, SSI, uncertainties>>
    /\ UNCHANGED <<qvars, bvars>>

\* lines 182-183: data = np.loadtxt(pth)
SolarLoad(p) ==
    /\ s_pc[p] = "load"
    /\ LET arr == loadtxt(file)
       IN  IF arr.kind = "array"
           THEN /\ data' = [data EXCEPT ![p] = arr]
                /\ s_pc' = [s_pc EXCEPT ![p] = "slice"]
                /\ UNCHANGED s_ret
           ELSE /\ s_pc' = [s_pc EXCEPT ![p] = "done"]
                /\ s_ret' = [s_ret EXCEPT ![p] = SRaise(arr.kind)]
                /\ UNCHANGED data
    /\ UNCHANGED <<file, s_model, wavelengths, SSI, uncertainties>>
    /\ UNCHANGED <<qvars, bvars>>

\* lines 184-187: the three column views, then wavelengths and SSI rebound
\* to scaled copies; uncertainties stays a view of data[:, 2]
SolarSlice(p) ==
    /\ s_pc[p] = "slice"
    /\ IF CanIndexColumn(data[p], 1) /\ CanIndexColumn(data[p], 2)
          /\ CanIndexColumn(data[p], 3)
       THEN /\ wavelengths' =
                 [wavelengths EXCEPT ![p] = ScaleArr(Column(data[p], 1), 0 - 9)]
            /\ SSI' = [SSI EXCEPT ![p] = ScaleArr(Column(data[p], 2), 9)]
            /\ uncertainties' = [uncertainties EXCEPT ![p] = Column(data[p], 3)]
            /\ s_pc' = [s_pc EXCEPT ![p] = "subst"]
            /\ UNCHANGED s_ret
       ELSE /\ s_pc' = [s_pc EXCEPT ![p] = "done"]
            /\ s_ret' = [s_ret EXCEPT ![p] = SRaise("IndexError")]
            /\ UNCHANGED <<wavelengths, SSI, uncertainties>>
    /\ UNCHANGED <<file, s_model, data>>
    /\ UNCHANGED <<qvars, bvars>>

\* line 190: the masked assignment, in place in the call's own array
SolarSubst(p) ==
    /\ s_pc[p] = "subst"
    /\ uncertainties' =
         [uncertainties EXCEPT ![p] = MinusOneToNaN(uncertainties[p])]
    /\ data' = [data EXCEPT
                  ![p] = WriteColumn(data[p], 3, MinusOneToNaN(uncertainties[p]))]
    /\ s_pc' = [s_pc EXCEPT ![p] = "return"]
    /\ UNCHANGED <<file, s_model, wavelengths, SSI, s_ret>>
    /\ UNCHANGED <<qvars, bvars>>

\* lines 192-193: uncertainties rebound to the scaled copy, and the return
SolarReturn(p) ==
    /\ s_pc[p] = "return"
    /\ s_ret' = [s_ret EXCEPT ![p] =
                   SReturn(wavelengths[p], SSI[p], ScaleArr(uncertainties[p], 9))]
    /\ uncertainties' = [uncertainties EXCEPT ![p] = ScaleArr(uncertainties[p], 9)]
    /\ s_pc' = [s_pc EXCEPT ![p] = "done"]
    /\ UNCHANGED <<file, s_model, data, wavelengths, SSI>>
    /\ UNCHANGED <<qvars, bvars>>

\* rows drawn: every row of three tokens, and rows of every other width up
\* to MaxCols holding the numeral "2"
RowsDrawn ==
    [1..3 -> Tokens] \cup {[j \in 1..w |-> "2"] : w \in 1..MaxCols}
\* rows of three numerals
GoodRows == [1..3 -> NumericTokens]

SeqsUpTo(S, n) == UNION {[1..l -> S] : l \in 0..n}

\* the files a single call is run on: unreadable, or up to MaxRows rows
FilesDrawn ==
    {[readable |-> FALSE, rows |-> <<>>]}
    \cup {[readable |-> TRUE, rows |-> r] : r \in SeqsUpTo(RowsDrawn, MaxRows)}
\* the files concurrent calls are run on
FilesConc ==
    {[readable |-> FALSE, rows |-> <<>>]}
    \cup {[readable |-> TRUE, rows |-> r] : r \in SeqsUpTo(GoodRows, MaxRowsConc)}

\* one call run alone, lines 181-193 from entry to exit
solar_spectrum(f, model) ==
    IF model # "SOLAR-ISS" THEN SRaise("UnboundLocalError")
    ELSE LET arr == loadtxt(f)
         IN  IF arr.kind # "array" THEN SRaise(arr.kind)
             ELSE IF ~(CanIndexColumn(arr, 1) /\ CanIndexColumn(arr, 2)
                       /\ CanIndexColumn(arr, 3))
                  THEN SRaise("IndexError")
             ELSE SReturn(ScaleArr(Column(arr, 1), 0 - 9),
                          ScaleArr(Column(arr, 2), 9),
                          ScaleArr(MinusOneToNaN(Column(arr, 3)), 9))

IdleQRad ==
    /\ q_pc = "off" /\ q_args = [emissivity |-> 0, T |-> 0, T2 |-> <<>>]
    /\ q_ret = 0
IdleBlackbody ==
    /\ b_pc = "off" /\ b_args = [T |-> Zero, wavelength |-> Zero]
    /\ b_ret = Return(Zero)
SolarLocals ==
    /\ data = [p \in Calls |-> NoArray]
    /\ wavelengths = [p \in Calls |-> <<>>]
    /\ SSI = [p \in Calls |-> <<>>]
    /\ uncertainties = [p \in Calls |-> <<>>]
    /\ s_ret = [p \in Calls |-> SRaise("none")]
IdleSolar ==
    /\ file = [readable |-> FALSE, rows |-> <<>>]
    /\ s_pc = [p \in Calls |-> "off"]
    /\ s_model = [p \in Calls |-> "SOLAR-ISS"]
    /\ SolarLocals

InitQRad ==
    /\ q_pc = "ready" /\ q_args \in QArgs /\ q_ret = 0
    /\ IdleBlackbody /\ IdleSolar

InitBlackbody ==
    /\ b_pc = "ready" /\ b_args \in BArgs /\ b_ret = Return(Zero)
    /\ IdleQRad /\ IdleSolar

\* one call of solar_spectrum, on any file drawn
InitSolar ==
    /\ file \in FilesDrawn
    /\ s_pc = [p \in Calls |-> IF p = 1 THEN "call" ELSE "off"]
    /\ s_model \in [Calls -> Models]
    /\ \A p \in Calls : p # 1 => s_model[p] = "SOLAR-ISS"
    /\ SolarLocals
    /\ IdleQRad /\ IdleBlackbody

\* NumCalls concurrent calls of solar_spectrum
InitSolarConc ==
    /\ file \in FilesConc
    /\ s_pc = [p \in Calls |-> "call"]
    /\ s_model \in [Calls -> Models]
    /\ SolarLocals
    /\ IdleQRad /\ IdleBlackbody

NextSolar ==
    \E p \in Calls :
        \/ SolarTest(p)
        \/ SolarLoad(p)
        \/ SolarSlice(p)
        \/ SolarSubst(p)
        \/ SolarReturn(p)

SpecQRad == InitQRad /\ [][QRadCall]_vars
SpecBlackbody == InitBlackbody /\ [][BlackbodyCall]_vars
SpecSolar == InitSolar /\ [][NextSolar]_vars
SpecSolarConc == InitSolarConc /\ [][NextSolar]_vars

(***************************************************************************)
(* The claims.                                                             *)
(***************************************************************************)
QT2 == IF q_args.T2 = <<>> THEN 0 ELSE q_args.T2[1]
Fourth(x) == x * x * x * x

\* C1: for every emissivity, T and T2 drawn (emissivities below 0 and above
\* 1 included) q_rad returns sigma * emissivity * (T^4 - T2^4), and with T2
\* omitted it returns what q_rad(emissivity, T, 0) returns, which is
\* sigma * emissivity * T^4.
C1_QRadFormula ==
    q_pc = "done" =>
        /\ q_ret = Sigma * q_args.emissivity * (Fourth(q_args.T) - Fourth(QT2))
        /\ q_args.T2 = <<>> =>
              /\ q_ret = q_rad(q_args.emissivity, q_args.T, <<0>>)
              /\ q_ret = Sigma * q_args.emissivity * Fourth(q_args.T)

\* C1 witness: emissivity 1.5 (above 1), T = 400 K, T2 = 300 K answered
C1_Witness ==
    /\ q_pc = "done"
    /\ q_args = [emissivity |-> 6, T |-> 4, T2 |-> <<3>>]
    /\ q_ret = Sigma * 6 * (256 - 81)

\* C2: q_rad(e, T, T2) = -q_rad(e, T2, T), and q_rad(e, T, T) = 0.
C2_Antisymmetric ==
    q_pc = "done" =>
        /\ q_ret = 0 - q_rad(q_args.emissivity, QT2, <<q_args.T>>)
        /\ q_args.T = QT2 => q_ret = 0

\* C2 witness: a call with two different non-zero temperatures and a
\* non-zero flux
C2_Witness ==
    /\ q_pc = "done"
    /\ q_args.T2 # <<>>
    /\ q_args.T # 0 /\ QT2 # 0 /\ q_args.T # QT2
    /\ q_ret # 0

\* C8: for emissivity > 0 and T, T2 >= 0 the sign of the flux is the sign
\* of T - T2; T2 > T is answered with a negative flux.
C8_SignOfFlux ==
    (q_pc = "done" /\ q_args.emissivity > 0 /\ q_args.T >= 0 /\ QT2 >= 0) =>
        /\ QT2 > q_args.T => q_ret < 0
        /\ QT2 = q_args.T => q_ret = 0
        /\ QT2 < q_args.T => q_ret > 0

\* C8 witness: surroundings hotter than the surface, a negative flux
C8_Witness ==
    /\ q_pc = "done"
    /\ q_args.emissivity > 0 /\ q_args.T >= 0
    /\ q_args.T2 # <<>> /\ QT2 > q_args.T
    /\ q_ret < 0

\* C6 (as claimed): for T > 0 and wavelength > 0 the call returns a value
\* strictly greater than 0; it does not fail.
C6_PositiveRadiance ==
    (b_pc = "done" /\ b_args.T.m > 0 /\ b_args.wavelength.m > 0) =>
        /\ b_ret.kind = "value"
        /\ b_ret.val.m > 0

\* C7: with T = 0 or wavelength = 0 the call ends in a numeric error; no
\* number is returned.
C7_ZeroRaises ==
    (b_pc = "done" /\ (b_args.T = Zero \/ b_args.wavelength = Zero)) =>
        /\ b_ret.kind # "value"
        /\ b_ret.kind \in {"ZeroDivisionError", "OverflowError"}

\* C7 witness: T = 0 with a positive wavelength ended in ZeroDivisionError
C7_Witness ==
    /\ b_pc = "done"
    /\ b_args.T = Zero /\ b_args.wavelength.m > 0
    /\ b_ret.kind = "ZeroDivisionError"

\* the integer a numeral of the data file denotes
RawValue(tok) == IF tok = "-1" THEN 0 - 1 ELSE 2

\* C3 (as claimed): a model other than 'SOLAR-ISS' ends in an explicit
\* unsupported-model error.
C3_UnsupportedModelError ==
    \A p \in Calls :
        (s_pc[p] = "done" /\ s_model[p] # "SOLAR-ISS") =>
            s_ret[p].kind = "UnsupportedModelError"

\* C4: in a returned result, uncertainty i is not-a-number exactly when
\* the raw uncertainty of row i is -1 and is the raw value times 1e9
\* otherwise; a wavelength or irradiance of -1 is scaled, not replaced.
C4_SentinelToNaN ==
    \A p \in Calls :
        (s_pc[p] = "done" /\ s_ret[p].kind = "value") =>
            /\ Len(s_ret[p].uncertainties) = Len(file.rows)
            /\ \A i \in 1..Len(file.rows) :
                /\ s_ret[p].uncertainties[i].nan <=> file.rows[i][3] = "-1"
                /\ file.rows[i][3] # "-1" =>
                      s_ret[p].uncertainties[i] =
                          [nan |-> FALSE, m |-> RawValue(file.rows[i][3]), e |-> 9]
                /\ file.rows[i][1] = "-1" =>
                      s_ret[p].wavelengths[i] =
                          [nan |-> FALSE, m |-> 0 - 1, e |-> 0 - 9]
                /\ file.rows[i][2] = "-1" =>
                      s_ret[p].SSI[i] = [nan |-> FALSE, m |-> 0 - 1, e |-> 9]

\* C4 witness: a returned result of a file with a row whose wavelength,
\* irradiance and uncertainty are all -1 and a row whose uncertainty is 2
C4_Witness ==
    \E p \in Calls :
        /\ s_pc[p] = "done" /\ s_ret[p].kind = "value"
        /\ \E i, i2 \in 1..Len(file.rows) :
            /\ file.rows[i] = <<"-1", "-1", "-1">>
            /\ s_ret[p].uncertainties[i].nan
            /\ ~s_ret[p].wavelengths[i].nan
            /\ file.rows[i2][3] = "2"
            /\ s_ret[p].uncertainties[i2] = [nan |-> FALSE, m |-> 2, e |-> 9]

\* a readable file whose rows all hold three numerals
WellFormed(f) ==
    /\ f.readable
    /\ \A i \in 1..Len(f.rows) :
        /\ Len(f.rows[i]) = 3
        /\ \A j \in 1..3 : f.rows[i][j] \in NumericTokens

\* C5 (as claimed): for a well-formed file of N >= 1 rows the call returns
\* three sequences of length N in row order, wavelengths[i] the raw
\* wavelength times 1e-9 and irradiances[i] the raw irradiance times 1e9.
C5_AllRowsInOrder ==
    \A p \in Calls :
        (s_pc[p] = "done" /\ s_model[p] = "SOLAR-ISS"
         /\ WellFormed(file) /\ Len(file.rows) >= 1) =>
            /\ s_ret[p].kind = "value"
            /\ Len(s_ret[p].wavelengths) = Len(file.rows)
            /\ Len(s_ret[p].SSI) = Len(file.rows)
            /\ Len(s_ret[p].uncertainties) = Len(file.rows)
            /\ \A i \in 1..Len(file.rows) :
                /\ s_ret[p].wavelengths[i] =
                      [nan |-> FALSE, m |-> RawValue(file.rows[i][1]), e |-> 0 - 9]
                /\ s_ret[p].SSI[i] =
                      [nan |-> FALSE, m |-> RawValue(file.rows[i][2]), e |-> 9]

\* C10 (as claimed): when the file is unreadable or malformed (a row whose
\* column count is not three, or a non-numeric token), the call ends in an
\* error and returns no sequences.
C10_BadFileRaises ==
    \A p \in Calls :
        (s_pc[p] = "done" /\ s_model[p] = "SOLAR-ISS" /\ ~WellFormed(file)) =>
            s_ret[p].kind \in {"OSError", "ValueError", "IndexError"}

\* C9: under every interleaving of concurrent calls the file is never
\* written, and each call that ends has the outcome of a call run alone on
\* that file.
C9_CallsIsolated ==
    [][/\ file' = file
       /\ \A p \in Calls :
            s_pc'[p] = "done" => s_ret'[p] = solar_spectrum(file, s_model[p])]_vars

\* C9 witness: call 1 has returned its sequences while call 2, which loaded
\* its own copy, has substituted a NaN in it and has not yet returned
C9_Witness ==
    /\ s_pc[1] = "done" /\ s_ret[1].kind = "value"
    /\ s_pc[2] = "return"
    /\ \E i \in 1..Len(data[2].a) : data[2].a[i][3].nan
    /\ \E i \in 1..Len(file.rows) : file.rows[i][3] = "-1"

====
